---- MODULE Spec2Model ----
(***************************************************************************)
(* Model of the `benchmarking` crate: the aggregate MeasureResult, the     *)
(* Measurer handed to each repetition's callback, and the orchestrators    *)
(* of src/src/lib.rs.                                                      *)
(*                                                                         *)
(* Durations are natural numbers of clock ticks (nanoseconds).  An         *)
(* Option<T> is a sequence of length 0 (None) or 1 (Some).                 *)
(***************************************************************************)
EXTENDS Integers, Sequences, FiniteSets, TLC

(* ------------------------------ bounds -------------------------------- *)
MaxTimes == 3
MaxLoops == 2
MaxSpan == 2
MaxOps == 2
MaxDuration == 2
MaxNow == 4

VARIABLES
    fn,              \* which orchestrator was called
    times,           \* argument `times` of measure_function_with_times
    duration,        \* argument `duration` of the duration-bounded functions
    pc,              \* position of the (foreground) orchestrator
    measurer,        \* the orchestrator's Measurer
    measure_result,  \* Option<MeasureResult>: the running total
    i,               \* loop counter: `for _ in 1..times`, or loop iterations done
    start,           \* Option<Instant>: `let start = Instant::now()`
    now,             \* the clock
    ret,             \* Option<Result<MeasureResult, BenchmarkError>>: returned value
    kinds,           \* per repetition: what the callback did (history)
    seen,            \* per repetition: the seq the callback observed (history)
    recorded,        \* all spans the callbacks measured so far (history)
    threads,         \* argument `number_of_threads` of the multi-thread functions
    workers,         \* the spawned background threads, by spawn order
    chan,            \* messages sent on `tx` and not yet received from `rx`
    start0,          \* `let start = Instant::now()` taken before spawning
    own,             \* Option: the foreground's total when its own loop ended (history)
    n,               \* argument `n` of the N-wide functions
    measurers,       \* the N-wide orchestrator's Vec<Measurer>
    measure_results, \* Option<Vec<MeasureResult>>: the N-wide running totals
    self,            \* the Measurer of src/src/measurer.rs a callback works on
    call,            \* Option: the Measurer method in progress or last finished
    panicked,        \* a method of the Measurer panicked
    trace,           \* the closures the Measurer invoked, in order (history)
    methods,         \* the methods called on the Measurer, in order (history)
    operands,        \* three MeasureResults a, b, c to merge
    lhs,             \* Option<MeasureResult>: one way of merging them
    rhs,             \* Option<MeasureResult>: the other way of merging them
    sample,          \* a MeasureResult whose elapsed() is taken
    average          \* Option<Duration>: what elapsed() returned

vars == <<fn, times, duration, pc, measurer, measure_result, i, start, now,
          ret, kinds, seen, recorded, threads, workers, chan, start0, own,
          n, measurers, measure_results, self, call, panicked, trace, methods,
          operands, lhs, rhs, sample, average>>

histvars == <<kinds, seen, recorded>>
mtvars == <<threads, workers, chan, start0, own>>
nvars == <<n, measurers, measure_results>>
msvars == <<self, call, panicked, trace, methods>>
rvars == <<operands, lhs, rhs, sample, average>>

(* --------------------------- MeasureResult ----------------------------- *)
\* MeasureResult::new
New(elapsed) == [times |-> 1, total_elapsed |-> elapsed]

\* MeasureResult::empty
Empty == [times |-> 0, total_elapsed |-> 0]

(* ------------------------------ Measurer ------------------------------- *)
\* Measurer::default()
DefaultMeasurer == [seq |-> 0, result |-> <<>>, pass |-> FALSE]

\* Measurer::measure with a span of duration d: creates the accumulated
\* result if absent, else increments its count and adds the duration.
Measure(m, d) ==
    IF m.result = <<>>
    THEN [m EXCEPT !.result = <<New(d)>>]
    ELSE [m EXCEPT !.result = <<[times |-> m.result[1].times + 1,
                                 total_elapsed |-> m.result[1].total_elapsed + d]>>]

\* Measurer::skip: marks the repetition as excluded.
Skip(m) == [m EXCEPT !.pass = TRUE]

\* Measurer::get_seq
get_seq(m) == m.seq

(* --------------------- Measurer, src/src/measurer.rs ------------------- *)
\* #[derive(Default)] struct Measurer { seq: u64, elapsed: Option<Result<..>> }
Measurer_default == [seq |-> 0, elapsed |-> <<>>]

\* A Measurer::default() no method was called on yet; no MeasureResult
\* arithmetic under way.
FreshMeasurer ==
    /\ self = Measurer_default
    /\ call = <<>>
    /\ panicked = FALSE
    /\ trace = <<>>
    /\ methods = <<>>
    /\ operands = <<Empty, Empty, Empty>>
    /\ lhs = <<>>
    /\ rhs = <<>>
    /\ sample = New(0)
    /\ average = <<>>

(* --------------------------- user callbacks ---------------------------- *)
\* One call the callback makes on its Measurer.
MeasureOp(d) == [op |-> "measure", d |-> d]
SkipOp == [op |-> "skip", d |-> 0]
Ops == {SkipOp} \cup {MeasureOp(d) : d \in 0..MaxSpan}

\* What a callback does in one repetition: a sequence of calls.
Behaviours == UNION {[1..len -> Ops] : len \in 0..MaxOps}

RECURSIVE Callback(_, _)
Callback(m, b) ==
    IF b = <<>> THEN m
    ELSE Callback(IF Head(b).op = "skip" THEN Skip(m) ELSE Measure(m, Head(b).d),
                  Tail(b))

RECURSIVE SpanCount(_)
SpanCount(b) ==
    IF b = <<>> THEN 0
    ELSE (IF Head(b).op = "measure" THEN 1 ELSE 0) + SpanCount(Tail(b))

RECURSIVE SpanSum(_)
SpanSum(b) == IF b = <<>> THEN 0 ELSE Head(b).d + SpanSum(Tail(b))

Skips(b) == \E k \in 1..Len(b) : b[k].op = "skip"

\* Classification of a repetition, for the history.
Kind(b) ==
    IF b = <<>> THEN "missing"
    ELSE IF Skips(b) THEN (IF SpanCount(b) = 0 THEN "skip" ELSE "mixed")
    ELSE IF SpanCount(b) = 1 THEN "one" ELSE "many"

\* Wall-clock time a repetition takes: its spans plus untimed work.
Overheads == {0, 1}

(* ----------------------- orchestrator building blocks ------------------ *)
\* Variant of Reset: `measurer.pass = false` is left out.
ResetResultOnly(m) == [m EXCEPT !.result = <<>>]

\* measurer.pass = false; measurer.result = None;
Reset(m) == [m EXCEPT !.pass = FALSE, !.result = <<>>]

\* Variant of FirstCollect: the first repetition's measurement is discarded
\* as if it were a warm-up run.
FirstCollectDropped(m) ==
    IF m.pass
    THEN [ok |-> TRUE, result |-> Empty, m |-> Reset(m)]
    ELSE IF m.result = <<>>
         THEN [ok |-> FALSE, result |-> Empty, m |-> m]
         ELSE [ok |-> TRUE, result |-> Empty, m |-> [m EXCEPT !.result = <<>>]]

\* Variant of FirstCollect: the result is required before the pass flag is
\* looked at.
FirstCollectResultFirst(m) ==
    IF m.result = <<>>
    THEN [ok |-> FALSE, result |-> Empty, m |-> m]
    ELSE IF m.pass
         THEN [ok |-> TRUE, result |-> Empty, m |-> Reset(m)]
         ELSE [ok |-> TRUE, result |-> m.result[1], m |-> [m EXCEPT !.result = <<>>]]

\* lib.rs 213-220: the first repetition's result.
\*   ok = FALSE is the `?` on Err(BenchmarkError::MeasurerNotMeasured).
FirstCollect(m) ==
    IF m.pass
    THEN [ok |-> TRUE, result |-> Empty, m |-> Reset(m)]
    ELSE IF m.result = <<>>
         THEN [ok |-> FALSE, result |-> Empty, m |-> m]
         ELSE [ok |-> TRUE, result |-> m.result[1], m |-> [m EXCEPT !.result = <<>>]]

\* Variant of Merge: `measure_result.total_elapsed += result.total_elapsed`
\* is left out.
MergeElapsedDropped(acc, result) ==
    [times |-> acc.times + result.times, total_elapsed |-> acc.total_elapsed]

\* Variant of Merge: `measure_result.times += result.times` is left out.
MergeTimesDropped(acc, result) ==
    [times |-> acc.times, total_elapsed |-> acc.total_elapsed + result.total_elapsed]

\* measure_result.times += result.times;
\* measure_result.total_elapsed += result.total_elapsed;
Merge(acc, result) ==
    [times |-> acc.times + result.times,
     total_elapsed |-> acc.total_elapsed + result.total_elapsed]

\* Variant of LoopCollect: a repetition without a result is passed over
\* (`if let Some(result) = measurer.result.take()`).
LoopCollectLenient(acc, m) ==
    IF m.pass \/ m.result = <<>>
    THEN [ok |-> TRUE, result |-> acc, m |-> Reset(m)]
    ELSE [ok |-> TRUE, result |-> Merge(acc, m.result[1]),
          m |-> [m EXCEPT !.result = <<>>]]

\* Variant of LoopCollect: the result is looked at before the pass flag
\* (`if let Some(result) = measurer.result.take() { merge } else if pass ..`).
LoopCollectResultFirst(acc, m) ==
    IF m.result # <<>>
    THEN [ok |-> TRUE, result |-> Merge(acc, m.result[1]), m |-> Reset(m)]
    ELSE IF m.pass
         THEN [ok |-> TRUE, result |-> acc, m |-> Reset(m)]
         ELSE [ok |-> FALSE, result |-> acc, m |-> m]

\* lib.rs 225-233: a later repetition's result merged into the running total.
LoopCollect(acc, m) ==
    IF m.pass
    THEN [ok |-> TRUE, result |-> acc, m |-> Reset(m)]
    ELSE IF m.result = <<>>
         THEN [ok |-> FALSE, result |-> acc, m |-> m]
         ELSE [ok |-> TRUE, result |-> Merge(acc, m.result[1]),
               m |-> [m EXCEPT !.result = <<>>]]

\* measurer.seq += 1
NextSeq(m) == [m EXCEPT !.seq = m.seq + 1]

\* start.elapsed() >= duration
Expired(st, t, dur) == t - st >= dur

Ok(r) == <<[ok |-> TRUE, value |-> r]>>
Err == <<[ok |-> FALSE, value |-> "MeasurerNotMeasured"]>>

(* ------------------------------- Init ---------------------------------- *)
Init ==
    /\ fn \in {"measure_function_with_times", "bench_function_with_duration"}
    /\ times \in 1..MaxTimes
    /\ duration \in 0..MaxDuration
    /\ (fn = "measure_function_with_times" => duration = 0)
    /\ (fn = "bench_function_with_duration" => times = 1)
    /\ pc = "first"
    /\ measurer = DefaultMeasurer
    /\ measure_result = <<>>
    /\ i = 1
    /\ start = <<>>
    /\ now = 0
    /\ ret = <<>>
    /\ kinds = <<>>
    /\ seen = <<>>
    /\ recorded = Empty
    /\ threads = 1
    /\ workers = <<>>
    /\ chan = <<>>
    /\ start0 = 0
    /\ own = <<>>
    /\ n = 1
    /\ measurers = <<>>
    /\ measure_results = <<>>
    /\ FreshMeasurer

\* The history of one more repetition whose callback did b.
Observe(b) ==
    /\ kinds' = Append(kinds, Kind(b))
    /\ seen' = Append(seen, get_seq(measurer))
    /\ recorded' = [times |-> recorded.times + SpanCount(b),
                    total_elapsed |-> recorded.total_elapsed + SpanSum(b)]

\* The clock after a repetition whose callback did b.
Elapse(b, o) ==
    /\ now + SpanSum(b) + o <= MaxNow
    /\ now' = now + SpanSum(b) + o

(* -------------------- measure_function_with_times ---------------------- *)
\* lib.rs 209-220
MeasureFirst ==
    /\ fn = "measure_function_with_times"
    /\ pc = "first"
    /\ \E b \in Behaviours, o \in Overheads :
        LET c == FirstCollect(Callback(measurer, b)) IN
        /\ Observe(b)
        /\ Elapse(b, o)
        /\ measurer' = c.m
        /\ IF c.ok
           THEN /\ measure_result' = <<c.result>>
                /\ pc' = "loop"
                /\ ret' = ret
           ELSE /\ measure_result' = measure_result
                /\ pc' = "err"
                /\ ret' = Err
    /\ UNCHANGED <<fn, times, duration, i, start>>
    /\ UNCHANGED mtvars
    /\ UNCHANGED msvars
    /\ UNCHANGED nvars
    /\ UNCHANGED rvars

\* lib.rs 222-236: one iteration of `for _ in 1..times`
MeasureLoop ==
    /\ fn = "measure_function_with_times"
    /\ pc = "loop"
    /\ i < times
    /\ \E b \in Behaviours, o \in Overheads :
        LET c == LoopCollect(measure_result[1], Callback(measurer, b)) IN
        /\ Observe(b)
        /\ Elapse(b, o)
        /\ IF c.ok
           THEN /\ measure_result' = <<c.result>>
                /\ measurer' = NextSeq(c.m)
                /\ i' = i + 1
                /\ pc' = "loop"
                /\ ret' = ret
           ELSE /\ measure_result' = measure_result
                /\ measurer' = c.m
                /\ i' = i
                /\ pc' = "err"
                /\ ret' = Err
    /\ UNCHANGED <<fn, times, duration, start>>
    /\ UNCHANGED mtvars
    /\ UNCHANGED msvars
    /\ UNCHANGED nvars
    /\ UNCHANGED rvars

\* lib.rs 238
MeasureReturn ==
    /\ fn = "measure_function_with_times"
    /\ pc = "loop"
    /\ i >= times
    /\ pc' = "ok"
    /\ ret' = Ok(measure_result[1])
    /\ UNCHANGED <<fn, times, duration, measurer, measure_result, i, start, now,
                   kinds, seen, recorded>>
    /\ UNCHANGED mtvars
    /\ UNCHANGED msvars
    /\ UNCHANGED nvars
    /\ UNCHANGED rvars

(* -------------------- bench_function_with_duration --------------------- *)
\* Variant of BenchFirst: the deadline is tested before the first repetition
\* (`while start.elapsed() < duration` over an empty total).
BenchFirstDeadlineFirst ==
    /\ fn = "bench_function_with_duration"
    /\ pc = "first"
    /\ Expired(now, now, duration)
    /\ measure_result' = <<Empty>>
    /\ pc' = "ok"
    /\ ret' = Ok(Empty)
    /\ UNCHANGED <<fn, times, duration, measurer, i, start, now, kinds, seen,
                   recorded>>
    /\ UNCHANGED mtvars
    /\ UNCHANGED msvars
    /\ UNCHANGED nvars
    /\ UNCHANGED rvars

\* lib.rs 256-269
BenchFirst ==
    /\ fn = "bench_function_with_duration"
    /\ pc = "first"
    /\ \E b \in Behaviours, o \in Overheads :
        LET c == FirstCollect(Callback(measurer, b)) IN
        /\ Observe(b)
        /\ Elapse(b, o)
        /\ measurer' = c.m
        /\ IF c.ok
           THEN /\ measure_result' = <<c.result>>
                /\ start' = <<now'>>
                /\ pc' = "loop"
                /\ ret' = ret
           ELSE /\ measure_result' = measure_result
                /\ start' = start
                /\ pc' = "err"
                /\ ret' = Err
    /\ UNCHANGED <<fn, times, duration, i>>
    /\ UNCHANGED mtvars
    /\ UNCHANGED msvars
    /\ UNCHANGED nvars
    /\ UNCHANGED rvars

\* Variant of BenchLoop: the deadline is tested when the callback returns,
\* before its result is merged (`if start.elapsed() >= duration { break; }`
\* ahead of the merge).
BenchLoopTestFirst ==
    /\ fn = "bench_function_with_duration"
    /\ pc = "loop"
    /\ i <= MaxLoops
    /\ \E b \in Behaviours, o \in Overheads :
        LET c == LoopCollect(measure_result[1], Callback(measurer, b)) IN
        /\ Observe(b)
        /\ Elapse(b, o)
        /\ IF Expired(start[1], now', duration)
           THEN /\ measure_result' = measure_result
                /\ measurer' = c.m
                /\ i' = i
                /\ pc' = "ok"
                /\ ret' = Ok(measure_result[1])
           ELSE IF ~c.ok
           THEN /\ measure_result' = measure_result
                /\ measurer' = c.m
                /\ i' = i
                /\ pc' = "err"
                /\ ret' = Err
           ELSE /\ measure_result' = <<c.result>>
                /\ measurer' = NextSeq(c.m)
                /\ i' = i + 1
                /\ pc' = "loop"
                /\ ret' = ret
    /\ UNCHANGED <<fn, times, duration, start>>
    /\ UNCHANGED nvars
    /\ UNCHANGED mtvars
    /\ UNCHANGED msvars
    /\ UNCHANGED rvars

\* lib.rs 271-291: one iteration of `loop`, and the return after `break`
BenchLoop ==
    /\ fn = "bench_function_with_duration"
    /\ pc = "loop"
    /\ i <= MaxLoops
    /\ \E b \in Behaviours, o \in Overheads :
        LET c == LoopCollect(measure_result[1], Callback(measurer, b)) IN
        /\ Observe(b)
        /\ Elapse(b, o)
        /\ IF ~c.ok
           THEN /\ measure_result' = measure_result
                /\ measurer' = c.m
                /\ i' = i
                /\ pc' = "err"
                /\ ret' = Err
           ELSE IF Expired(start[1], now', duration)
           THEN /\ measure_result' = <<c.result>>
                /\ measurer' = c.m
                /\ i' = i
                /\ pc' = "ok"
                /\ ret' = Ok(c.result)
           ELSE /\ measure_result' = <<c.result>>
                /\ measurer' = NextSeq(c.m)
                /\ i' = i + 1
                /\ pc' = "loop"
                /\ ret' = ret
    /\ UNCHANGED <<fn, times, duration, start>>
    /\ UNCHANGED mtvars
    /\ UNCHANGED msvars
    /\ UNCHANGED nvars
    /\ UNCHANGED rvars

(* ------------------------ single-thread claims ------------------------- *)
Returned == pc \in {"ok", "err"}

AllKinds(S) == \A k \in 1..Len(kinds) : kinds[k] \in S

\* C1: a fixed-count run of N = times repetitions, each measuring exactly one
\* span and never skipping, returns Ok with times = N and total_elapsed = the
\* sum of the N recorded span durations.
C1_FixedCountSum ==
    (fn = "measure_function_with_times" /\ pc = "ok" /\ AllKinds({"one"}))
        => /\ Len(kinds) = times
           /\ recorded.times = times
           /\ ret = Ok([times |-> times, total_elapsed |-> recorded.total_elapsed])

C1_Witness ==
    /\ fn = "measure_function_with_times"
    /\ pc = "ok"
    /\ times >= 3
    /\ AllKinds({"one"})
    /\ recorded.total_elapsed >= 2

\* C2: in both single-thread orchestrators a repetition that neither measures
\* nor skips makes the call return MeasurerNotMeasured at once: it is the last
\* repetition ever run and no result is returned.
C2_MissingAborts ==
    \A k \in 1..Len(kinds) :
        kinds[k] = "missing" => (k = Len(kinds) /\ pc = "err" /\ ret = Err)

C2_Witness ==
    /\ Len(kinds) >= 2
    /\ kinds[Len(kinds)] = "missing"
    /\ ret = Err

\* C3: a repetition whose callback only skips leaves the running total as it
\* was (an empty total when it is the first repetition) and raises no error.
C3_SkipAddsNothing ==
    [][(Len(kinds') = Len(kinds) + 1 /\ kinds'[Len(kinds')] = "skip")
         => /\ pc' # "err"
            /\ ret' # Err
            /\ measure_result' = IF measure_result = <<>> THEN <<Empty>>
                                  ELSE measure_result]_vars

C3_Witness ==
    /\ Len(kinds) >= 3
    /\ kinds[1] = "skip"
    /\ kinds[Len(kinds)] = "skip"
    /\ pc # "err"
    /\ measure_result # <<>>
    /\ measure_result[1].times > 0

\* C9: the callback of the k-th repetition (0-based) observes sequence k.
C9_SeqIsRepetitionIndex ==
    \A k \in 1..Len(seen) : seen[k] = k - 1

\* C10 as stated: a duration-bounded run whose callback measures a span in
\* every repetition returns times >= 1.
C10_MeasuringRunCounts ==
    (fn = "bench_function_with_duration" /\ pc = "ok"
        /\ AllKinds({"one", "many", "mixed"}))
        => ret[1].value.times >= 1

\* C10 amended: a duration-bounded run whose callback, in every repetition,
\* measures a span and does not skip returns times >= 1, for every duration.
C10_UnskippedRunCounts ==
    (fn = "bench_function_with_duration" /\ pc = "ok"
        /\ AllKinds({"one", "many"}))
        => ret[1].value.times >= 1

C10_Witness ==
    /\ fn = "bench_function_with_duration"
    /\ pc = "ok"
    /\ duration = 0
    /\ Len(kinds) >= 2
    /\ AllKinds({"one", "many"})

\* The MeasureResults the orchestrator holds or has returned.
LiveResults ==
    {measure_result[k] : k \in 1..Len(measure_result)}
        \cup {measurer.result[k] : k \in 1..Len(measurer.result)}
        \cup {ret[k].value : k \in {j \in 1..Len(ret) : ret[j].ok}}

\* C17 as stated: every result of a run has times = 0 exactly when its
\* total_elapsed = 0, spans of zero duration included.
C17_CountZeroIffTotalZero ==
    \A r \in LiveResults : (r.times = 0) <=> (r.total_elapsed = 0)

\* C17 amended: every result of a run with times = 0 has total_elapsed = 0.
C17_CountZeroThenTotalZero ==
    \A r \in LiveResults : (r.times = 0) => (r.total_elapsed = 0)

\* A run that timed spans and returned an empty result.
C17_Witness ==
    /\ pc = "ok"
    /\ Len(kinds) >= 2
    /\ recorded.total_elapsed > 0
    /\ ret = Ok(Empty)

\* C20: the duration-bounded loop goes on to another repetition only while
\* the time since the call began, the first repetition included, is below
\* the requested duration.
C20_FirstRepetitionCounts ==
    (fn = "bench_function_with_duration" /\ pc = "loop" /\ i >= 2)
        => now < duration

\* C21: in duration-bounded mode the deadline is tested only once a
\* repetition has completed and its result is merged: the loop ends exactly
\* when that test finds elapsed >= duration, the callback is not invoked
\* afterwards, and the call returns the total with every started repetition
\* merged in.
C21_TestAfterMerge ==
    [][fn = "bench_function_with_duration" =>
        /\ pc \in {"ok", "err"} => (kinds' = kinds /\ ret' = ret)
        /\ (pc = "loop" /\ Len(kinds') = Len(kinds) + 1 /\ pc' # "err") =>
              /\ pc' = "ok" <=> Expired(start[1], now', duration)
              /\ pc' = "ok" => ret' = Ok(measure_result'[1])
              /\ (\A k \in 1..Len(kinds') : kinds'[k] \in {"one", "many", "skip"})
                    => measure_result' = <<recorded'>>]_vars

C21_Witness ==
    /\ fn = "bench_function_with_duration"
    /\ pc = "ok"
    /\ duration > 0
    /\ Len(kinds) >= 3
    /\ AllKinds({"one", "many"})
    /\ ret = Ok(recorded)

\* C23: a repetition whose callback both measures spans and calls skip is
\* treated as skipped: it raises no error, its spans are not merged, and the
\* running total stays as it was (an empty total when it is the first
\* repetition).
C23_SkipWinsOverSpans ==
    [][(Len(kinds') = Len(kinds) + 1 /\ kinds'[Len(kinds')] = "mixed")
         => /\ pc' # "err"
            /\ ret' # Err
            /\ recorded'.times > recorded.times
            /\ measure_result' = IF measure_result = <<>> THEN <<Empty>>
                                  ELSE measure_result]_vars

\* A later repetition measured and skipped; its spans are not in the total.
C23_Witness ==
    /\ Len(kinds) >= 2
    /\ kinds[1] = "one"
    /\ kinds[Len(kinds)] = "mixed"
    /\ pc # "err"
    /\ measure_result # <<>>
    /\ measure_result[1].times = 1
    /\ recorded.times > 1

Next ==
    \/ MeasureFirst
    \/ MeasureLoop
    \/ MeasureReturn
    \/ BenchFirst
    \/ BenchLoop

Spec == Init /\ [][Next]_vars

(* ============ multi_thread_bench_function_with_duration ================ *)
(* The threads share nothing but the channel, the read-only `start` of     *)
(* line 323 and `duration`, so each thread's own protocol (its first       *)
(* repetition and its `loop`) is one step: the function of the callback's  *)
(* behaviour in each repetition and of the clock's reading at each         *)
(* `start.elapsed()` that the code computes.                               *)
MaxThreads == 3
MaxWorkerLoops == 2
MaxReading == 2

\* What the callback does in one repetition of a multi-thread run.
ThreadBehaviours == {<<>>, <<SkipOp>>, <<MeasureOp(1)>>}

Workers == 1..(threads - 1)

\* A background thread before `thread::spawn` has created it.
IdleWorker == [pc |-> "idle", measure_result |-> <<>>]

\* lib.rs 344-363 and 384-402: the outcomes of `loop` from its k-th iteration
\* on, with running total acc, Measurer m, deadline start st and a clock that
\* reads at least t0.  "done" is the `break`; "failed" is the missing
\* measurement (`?` in the foreground, `unwrap()` in a background thread).
RECURSIVE LoopOutcomes(_, _, _, _, _, _)
LoopOutcomes(acc, m, st, dur, t0, k) ==
    IF k > MaxWorkerLoops THEN {}
    ELSE UNION {
        LET c == LoopCollect(acc, Callback(m, b)) IN
        IF ~c.ok
        THEN {[status |-> "failed", result |-> acc, m |-> c.m, start |-> <<st>>]}
        ELSE IF Expired(st, t, dur)
        THEN {[status |-> "done", result |-> c.result, m |-> c.m, start |-> <<st>>]}
        ELSE LoopOutcomes(c.result, NextSeq(c.m), st, dur, t, k + 1)
        : b \in ThreadBehaviours, t \in t0..MaxReading }

\* The start timestamp a background thread tests its deadline against: the
\* `start` of lib.rs 323, moved into the closure.
WorkerStart == start0

\* lib.rs 331-363: a background thread's run up to its `break` or panic.
WorkerOutcomes(dur) ==
    UNION {
        LET c == FirstCollect(Callback(DefaultMeasurer, b)) IN
        IF ~c.ok
        THEN {[status |-> "failed", result |-> Empty, m |-> c.m, start |-> <<WorkerStart>>]}
        ELSE LoopOutcomes(c.result, c.m, WorkerStart, dur, WorkerStart, 1)
        : b \in ThreadBehaviours }

\* The start timestamp the foreground tests its deadline against: the `start`
\* of lib.rs 382, read from the clock after the first repetition; it shadows
\* the one of line 323.
ForegroundStart(t) == t

\* lib.rs 369-402: the foreground's own run up to its `break` or `?`.
ForegroundOutcomes(dur) ==
    UNION {
        LET c == FirstCollect(Callback(DefaultMeasurer, b)) IN
        IF ~c.ok
        THEN {[status |-> "failed", result |-> Empty, m |-> c.m, start |-> <<>>]}
        ELSE LoopOutcomes(c.result, c.m, ForegroundStart(t), dur, ForegroundStart(t), 1)
        : b \in ThreadBehaviours, t \in start0..MaxReading }

\* Variant of Normalize: the division by the thread count is left out.
NormalizeSkipped(r, nt) == r

\* measure_result.total_elapsed /= number_of_threads as u32;
Normalize(r, nt) == [r EXCEPT !.total_elapsed = r.total_elapsed \div nt]

\* The state after lib.rs 317-323: channel created, `start` taken.
InitMT ==
    /\ fn = "multi_thread_bench_function_with_duration"
    /\ times = 1
    /\ duration \in 0..MaxDuration
    /\ threads \in 1..MaxThreads
    /\ pc = IF threads > 1 THEN "spawn" ELSE "first"
    /\ measurer = DefaultMeasurer
    /\ measure_result = <<>>
    /\ i = 1
    /\ start = <<>>
    /\ now = 0
    /\ start0 = 0
    /\ ret = <<>>
    /\ kinds = <<>>
    /\ seen = <<>>
    /\ recorded = Empty
    /\ workers = [w \in Workers |-> IdleWorker]
    /\ chan = <<>>
    /\ own = <<>>
    /\ n = 1
    /\ measurers = <<>>
    /\ measure_results = <<>>
    /\ FreshMeasurer

\* lib.rs 325-367: one iteration of `for _ in 1..number_of_threads`
MTSpawn ==
    /\ pc = "spawn"
    /\ i < threads
    /\ workers' = [workers EXCEPT ![i].pc = "running"]
    /\ IF i + 1 < threads
       THEN /\ i' = i + 1
            /\ pc' = "spawn"
       ELSE /\ i' = 1
            /\ pc' = "first"
    /\ UNCHANGED <<fn, times, duration, measurer, measure_result, start, now, ret,
                   threads, chan, start0, own>>
    /\ UNCHANGED histvars
    /\ UNCHANGED msvars
    /\ UNCHANGED nvars
    /\ UNCHANGED rvars

\* lib.rs 331-365: a background thread: its repetitions, then
\* `tx.send(measure_result)`; `unwrap()` on a missing measurement panics and
\* nothing is sent.
WorkerRun(w) ==
    /\ workers[w].pc = "running"
    /\ \E o \in WorkerOutcomes(duration) :
        IF o.status = "done"
        THEN /\ workers' = [workers EXCEPT ![w].pc = "sent",
                                           ![w].measure_result = <<o.result>>]
             /\ chan' = Append(chan, o.result)
        ELSE /\ workers' = [workers EXCEPT ![w].pc = "panicked"]
             /\ chan' = chan
    /\ UNCHANGED <<fn, times, duration, pc, measurer, measure_result, i, start, now,
                   ret, threads, start0, own>>
    /\ UNCHANGED histvars
    /\ UNCHANGED msvars
    /\ UNCHANGED nvars
    /\ UNCHANGED rvars

\* lib.rs 369-402: the foreground's own repetitions
MTRun ==
    /\ pc = "first"
    /\ \E o \in ForegroundOutcomes(duration) :
        /\ measurer' = o.m
        /\ start' = o.start
        /\ IF o.status = "done"
           THEN /\ measure_result' = <<o.result>>
                /\ own' = <<o.result>>
                /\ pc' = "recv"
                /\ ret' = ret
           ELSE /\ measure_result' = measure_result
                /\ own' = own
                /\ pc' = "err"
                /\ ret' = Err
    /\ UNCHANGED <<fn, times, duration, i, now, threads, workers, chan, start0>>
    /\ UNCHANGED histvars
    /\ UNCHANGED msvars
    /\ UNCHANGED nvars
    /\ UNCHANGED rvars

\* lib.rs 404-409: one iteration of `for _ in 1..number_of_threads`;
\* `rx.recv()` blocks while the channel is empty
MTRecv ==
    /\ pc = "recv"
    /\ i < threads
    /\ chan # <<>>
    /\ measure_result' = <<Merge(measure_result[1], Head(chan))>>
    /\ chan' = Tail(chan)
    /\ i' = i + 1
    /\ UNCHANGED <<fn, times, duration, pc, measurer, start, now, ret, threads,
                   workers, start0, own>>
    /\ UNCHANGED histvars
    /\ UNCHANGED msvars
    /\ UNCHANGED nvars
    /\ UNCHANGED rvars

\* Variant of MTReturn: the receive loop is one iteration short
\* (`for _ in 2..number_of_threads`).
MTReturnEarly ==
    /\ pc = "recv"
    /\ i >= threads - 1
    /\ measure_result' = <<Normalize(measure_result[1], threads)>>
    /\ ret' = Ok(Normalize(measure_result[1], threads))
    /\ pc' = "ok"
    /\ UNCHANGED <<fn, times, duration, measurer, i, start, now, threads, workers,
                   chan, start0, own>>
    /\ UNCHANGED histvars
    /\ UNCHANGED msvars
    /\ UNCHANGED rvars
    /\ UNCHANGED nvars

\* lib.rs 411-413
MTReturn ==
    /\ pc = "recv"
    /\ i >= threads
    /\ measure_result' = <<Normalize(measure_result[1], threads)>>
    /\ ret' = Ok(Normalize(measure_result[1], threads))
    /\ pc' = "ok"
    /\ UNCHANGED <<fn, times, duration, measurer, i, start, now, threads, workers,
                   chan, start0, own>>
    /\ UNCHANGED histvars
    /\ UNCHANGED msvars
    /\ UNCHANGED nvars
    /\ UNCHANGED rvars

(* ------------------------ multi-thread claims -------------------------- *)
Finished(w) == workers[w].pc \in {"sent", "panicked"}

RECURSIVE WorkerTimes(_)
WorkerTimes(k) ==
    IF k = 0 THEN 0 ELSE workers[k].measure_result[1].times + WorkerTimes(k - 1)

RECURSIVE WorkerElapsed(_)
WorkerElapsed(k) ==
    IF k = 0 THEN 0
    ELSE workers[k].measure_result[1].total_elapsed + WorkerElapsed(k - 1)

\* C4: when every thread succeeds, the returned times is the sum of the
\* per-thread times and the returned total_elapsed is the sum of the
\* per-thread total_elapsed divided once by the thread count.
C4_SumThenDivideOnce ==
    (fn = "multi_thread_bench_function_with_duration" /\ pc = "ok")
        => ret = Ok([times |-> own[1].times + WorkerTimes(threads - 1),
                     total_elapsed |->
                        (own[1].total_elapsed + WorkerElapsed(threads - 1))
                            \div threads])

\* Three threads each reporting (times = 2, total_elapsed = 2) merge to
\* times = 6 and total_elapsed = 2.
C4_Witness ==
    /\ fn = "multi_thread_bench_function_with_duration"
    /\ pc = "ok"
    /\ threads = 3
    /\ own = <<[times |-> 2, total_elapsed |-> 2]>>
    /\ \A w \in Workers :
        workers[w].measure_result = <<[times |-> 2, total_elapsed |-> 2]>>
    /\ ret = Ok([times |-> 6, total_elapsed |-> 2])

\* The foreground waits in `rx.recv()` for a message nobody is left to send.
BlockedForever ==
    /\ pc = "recv"
    /\ i < threads
    /\ chan = <<>>
    /\ \A w \in Workers : Finished(w)

\* C6: a background worker whose repetition neither measures nor skips makes
\* the foreground call fail with MeasurerNotMeasured: the call has not
\* returned Ok and the foreground is never left blocked on the receive.
C6_WorkerFailureFailsCall ==
    (\E w \in Workers : workers[w].pc = "panicked")
        => (pc # "ok" /\ ~BlockedForever)

\* C7: a multi-thread call has returned, with Ok or with an error, only when
\* every spawned background worker has finished its loop.
C7_ReturnsAfterWorkers ==
    (fn = "multi_thread_bench_function_with_duration" /\ pc \in {"ok", "err"})
        => \A w \in Workers : Finished(w)

\* C8: the foreground tests its deadline against the same start timestamp
\* as the background workers, the one taken before any worker was spawned.
C8_OneSharedStart ==
    \A w \in Workers :
        (workers[w].pc # "idle" /\ start # <<>>) => start[1] = WorkerStart

\* The number of background workers that have sent their result.
Sent == Cardinality({w \in Workers : workers[w].pc = "sent"})

\* C25: a run with T threads has exactly T - 1 background workers; each sends
\* one result, after its own loop; the foreground receives only after its own
\* loop, T - 1 times in all; every message sent is either still in the channel
\* or was received and merged once, and when the call returns Ok nothing is
\* left in the channel and every worker's result is in the returned count.
C25_EachWorkerMergedOnce ==
    fn = "multi_thread_bench_function_with_duration" =>
        /\ DOMAIN workers = 1..(threads - 1)
        /\ pc \in {"recv", "ok"} =>
              /\ own # <<>>
              /\ \A w \in Workers : workers[w].pc # "idle"
              /\ Len(chan) + (i - 1) = Sent
        /\ pc = "ok" =>
              /\ \A w \in Workers : workers[w].pc = "sent"
              /\ chan = <<>>
              /\ i - 1 = threads - 1
              /\ ret[1].value.times = own[1].times + WorkerTimes(threads - 1)

\* Three threads, both workers' results received and merged.
C25_Witness ==
    /\ fn = "multi_thread_bench_function_with_duration"
    /\ pc = "ok"
    /\ threads = 3
    /\ chan = <<>>
    /\ \A w \in Workers : workers[w].pc = "sent" /\ workers[w].measure_result[1].times >= 1
    /\ ret[1].value.times >= 3

NextMT ==
    \/ MTSpawn
    \/ \E w \in Workers : WorkerRun(w)
    \/ MTRun
    \/ MTRecv
    \/ MTReturn

SpecMT == InitMT /\ [][NextMT]_vars

(* =========== multi_thread_bench_function_n_with_duration =============== *)
MaxN == 2

\* f(&mut measurers): slot j's Measurer after the callback did bs[j] on it.
CallbackN(ms, bs) == [j \in 1..Len(ms) |-> Callback(ms[j], bs[j])]

\* lib.rs 618-635: the first repetition's results, slot by slot from slot j;
\* rs are the results pushed so far.
RECURSIVE FirstCollectN(_, _, _)
FirstCollectN(ms, rs, j) ==
    IF j > Len(ms) THEN [ok |-> TRUE, results |-> rs, ms |-> ms]
    ELSE LET c == FirstCollect(ms[j]) IN
         IF ~c.ok THEN [ok |-> FALSE, results |-> rs, ms |-> ms]
         ELSE FirstCollectN([ms EXCEPT ![j] = c.m], Append(rs, c.result), j + 1)

\* Variant of LoopCollectN: every slot reads the first Measurer
\* (`&mut measurers[0]` for `&mut measurers[i]`).
RECURSIVE LoopCollectNFirstMeasurer(_, _, _)
LoopCollectNFirstMeasurer(accs, ms, j) ==
    IF j > Len(ms) THEN [ok |-> TRUE, results |-> accs,
                         ms |-> [k \in 1..Len(ms) |-> NextSeq(Reset(ms[k]))]]
    ELSE LET c == LoopCollect(accs[j], ms[1]) IN
         IF ~c.ok THEN [ok |-> FALSE, results |-> accs, ms |-> ms]
         ELSE LoopCollectNFirstMeasurer([accs EXCEPT ![j] = c.result], ms, j + 1)

\* Variant of LoopCollectN: a slot without a result is passed over.
RECURSIVE LoopCollectNLenient(_, _, _)
LoopCollectNLenient(accs, ms, j) ==
    IF j > Len(ms) THEN [ok |-> TRUE, results |-> accs, ms |-> ms]
    ELSE LET c == LoopCollectLenient(accs[j], ms[j]) IN
         LoopCollectNLenient([accs EXCEPT ![j] = c.result],
                             [ms EXCEPT ![j] = NextSeq(c.m)], j + 1)

\* lib.rs 640-658: a later repetition's results merged slot by slot from
\* slot j; each slot's seq is advanced inside the same loop.
RECURSIVE LoopCollectN(_, _, _)
LoopCollectN(accs, ms, j) ==
    IF j > Len(ms) THEN [ok |-> TRUE, results |-> accs, ms |-> ms]
    ELSE LET c == LoopCollect(accs[j], ms[j]) IN
         IF ~c.ok THEN [ok |-> FALSE, results |-> accs, ms |-> ms]
         ELSE LoopCollectN([accs EXCEPT ![j] = c.result],
                           [ms EXCEPT ![j] = NextSeq(c.m)], j + 1)

\* lib.rs 637-663 and 702-724: the outcomes of `loop` from its k-th iteration on.
RECURSIVE LoopOutcomesN(_, _, _, _, _, _)
LoopOutcomesN(accs, ms, st, dur, t0, k) ==
    IF k > MaxWorkerLoops THEN {}
    ELSE UNION {
        LET c == LoopCollectN(accs, CallbackN(ms, bs), 1) IN
        IF ~c.ok
        THEN {[status |-> "failed", results |-> accs, start |-> <<st>>]}
        ELSE IF Expired(st, t, dur)
        THEN {[status |-> "done", results |-> c.results, start |-> <<st>>]}
        ELSE LoopOutcomesN(c.results, c.ms, st, dur, t, k + 1)
        : bs \in [1..Len(ms) -> ThreadBehaviours], t \in t0..MaxReading }

\* lib.rs 606-614, 669-677: `n` default Measurers
DefaultMeasurers(nn) == [j \in 1..nn |-> DefaultMeasurer]

\* lib.rs 606-663: a background thread's run up to its `break` or panic.
WorkerOutcomesN(nn, dur) ==
    UNION {
        LET c == FirstCollectN(CallbackN(DefaultMeasurers(nn), bs), <<>>, 1) IN
        IF ~c.ok
        THEN {[status |-> "failed", results |-> <<>>, start |-> <<WorkerStart>>]}
        ELSE LoopOutcomesN(c.results, c.ms, WorkerStart, dur, WorkerStart, 1)
        : bs \in [1..nn -> ThreadBehaviours] }

\* lib.rs 669-724: the foreground's own run up to its `break` or `?`; its
\* deadline start is the `start` of line 700.
ForegroundOutcomesN(nn, dur) ==
    UNION {
        LET c == FirstCollectN(CallbackN(DefaultMeasurers(nn), bs), <<>>, 1) IN
        IF ~c.ok
        THEN {[status |-> "failed", results |-> <<>>, start |-> <<>>]}
        ELSE LoopOutcomesN(c.results, c.ms, ForegroundStart(t), dur,
                           ForegroundStart(t), 1)
        : bs \in [1..nn -> ThreadBehaviours], t \in start0..MaxReading }

\* lib.rs 729-738: one received Vec merged into the totals, then every total
\* divided by the thread count.
MergeReceivedN(totals, results, nt) ==
    [j \in 1..Len(totals) |-> Normalize(Merge(totals[j], results[j]), nt)]

\* The state after lib.rs 592-598: channel created, `start` taken.
InitMTN ==
    /\ fn = "multi_thread_bench_function_n_with_duration"
    /\ times = 1
    /\ duration \in 0..MaxDuration
    /\ threads \in 1..MaxThreads
    /\ n \in 1..MaxN
    /\ pc = IF threads > 1 THEN "spawn" ELSE "first"
    /\ measurer = DefaultMeasurer
    /\ measure_result = <<>>
    /\ measurers = DefaultMeasurers(n)
    /\ measure_results = <<>>
    /\ i = 1
    /\ start = <<>>
    /\ now = 0
    /\ start0 = 0
    /\ ret = <<>>
    /\ kinds = <<>>
    /\ seen = <<>>
    /\ recorded = Empty
    /\ workers = [w \in Workers |-> IdleWorker]
    /\ chan = <<>>
    /\ own = <<>>
    /\ FreshMeasurer

\* lib.rs 600-667: one iteration of `for _ in 1..number_of_threads`
MTNSpawn ==
    /\ pc = "spawn"
    /\ i < threads
    /\ workers' = [workers EXCEPT ![i].pc = "running"]
    /\ IF i + 1 < threads
       THEN /\ i' = i + 1
            /\ pc' = "spawn"
       ELSE /\ i' = 1
            /\ pc' = "first"
    /\ UNCHANGED <<fn, times, duration, measurer, measure_result, start, now, ret,
                   threads, chan, start0, own>>
    /\ UNCHANGED histvars
    /\ UNCHANGED msvars
    /\ UNCHANGED nvars
    /\ UNCHANGED rvars

\* lib.rs 605-666: a background thread: its repetitions, then
\* `tx.send(measure_results)`
WorkerRunN(w) ==
    /\ workers[w].pc = "running"
    /\ \E o \in WorkerOutcomesN(n, duration) :
        IF o.status = "done"
        THEN /\ workers' = [workers EXCEPT ![w].pc = "sent",
                                           ![w].measure_result = <<o.results>>]
             /\ chan' = Append(chan, o.results)
        ELSE /\ workers' = [workers EXCEPT ![w].pc = "panicked"]
             /\ chan' = chan
    /\ UNCHANGED <<fn, times, duration, pc, measurer, measure_result, i, start, now,
                   ret, threads, start0, own>>
    /\ UNCHANGED histvars
    /\ UNCHANGED msvars
    /\ UNCHANGED nvars
    /\ UNCHANGED rvars

\* lib.rs 669-724: the foreground's own repetitions
MTNRun ==
    /\ pc = "first"
    /\ \E o \in ForegroundOutcomesN(n, duration) :
        /\ start' = o.start
        /\ IF o.status = "done"
           THEN /\ measure_results' = <<o.results>>
                /\ own' = <<o.results>>
                /\ pc' = "recv"
                /\ ret' = ret
           ELSE /\ measure_results' = measure_results
                /\ own' = own
                /\ pc' = "err"
                /\ ret' = Err
    /\ UNCHANGED <<fn, times, duration, measurer, measure_result, i, now, threads,
                   workers, chan, start0, n, measurers>>
    /\ UNCHANGED histvars
    /\ UNCHANGED msvars
    /\ UNCHANGED rvars

\* lib.rs 726-739: one iteration of `for _ in 1..number_of_threads`
MTNRecv ==
    /\ pc = "recv"
    /\ i < threads
    /\ chan # <<>>
    /\ measure_results' = <<MergeReceivedN(measure_results[1], Head(chan), threads)>>
    /\ chan' = Tail(chan)
    /\ i' = i + 1
    /\ UNCHANGED <<fn, times, duration, pc, measurer, measure_result, start, now,
                   ret, threads, workers, start0, own, n, measurers>>
    /\ UNCHANGED histvars
    /\ UNCHANGED msvars
    /\ UNCHANGED rvars

\* lib.rs 741
MTNReturn ==
    /\ pc = "recv"
    /\ i >= threads
    /\ ret' = Ok(measure_results[1])
    /\ pc' = "ok"
    /\ UNCHANGED <<fn, times, duration, measurer, measure_result, i, start, now,
                   threads, workers, chan, start0, own>>
    /\ UNCHANGED histvars
    /\ UNCHANGED msvars
    /\ UNCHANGED nvars
    /\ UNCHANGED rvars

RECURSIVE WorkerElapsedN(_, _)
WorkerElapsedN(k, j) ==
    IF k = 0 THEN 0
    ELSE workers[k].measure_result[1][j].total_elapsed + WorkerElapsedN(k - 1, j)

\* C5: in the multi-thread N-wide run, every slot's returned total_elapsed is
\* the sum of that slot's per-thread total_elapsed over all threads, divided
\* by the thread count once.
C5_EachSlotDividedOnce ==
    (fn = "multi_thread_bench_function_n_with_duration" /\ pc = "ok")
        => \A j \in 1..n :
            ret[1].value[j].total_elapsed =
                (own[1][j].total_elapsed + WorkerElapsedN(threads - 1, j))
                    \div threads

NextMTN ==
    \/ MTNSpawn
    \/ \E w \in Workers : WorkerRunN(w)
    \/ MTNRun
    \/ MTNRecv
    \/ MTNReturn

SpecMTN == InitMTN /\ [][NextMTN]_vars

(* ===== measure_function_n_with_times, bench_function_n_with_duration ==== *)
\* The state at entry: `n` default Measurers (lib.rs 436-444, 506-514).
InitN ==
    /\ fn \in {"measure_function_n_with_times", "bench_function_n_with_duration"}
    /\ times \in 1..MaxTimes
    /\ duration \in 0..MaxDuration
    /\ (fn = "measure_function_n_with_times" => duration = 0)
    /\ (fn = "bench_function_n_with_duration" => times = 1)
    /\ n \in 1..MaxN
    /\ pc = "first"
    /\ measurer = DefaultMeasurer
    /\ measure_result = <<>>
    /\ measurers = DefaultMeasurers(n)
    /\ measure_results = <<>>
    /\ i = 1
    /\ start = <<>>
    /\ now = 0
    /\ ret = <<>>
    /\ kinds = <<>>
    /\ seen = <<>>
    /\ recorded = [j \in 1..n |-> Empty]
    /\ threads = 1
    /\ workers = <<>>
    /\ chan = <<>>
    /\ start0 = 0
    /\ own = <<>>
    /\ FreshMeasurer

RECURSIVE SpanSumN(_)
SpanSumN(bs) == IF bs = <<>> THEN 0 ELSE SpanSum(Head(bs)) + SpanSumN(Tail(bs))

\* The history of one more repetition whose callback did bs[j] on slot j.
ObserveN(bs) ==
    /\ kinds' = Append(kinds, [j \in 1..n |-> Kind(bs[j])])
    /\ seen' = Append(seen, [j \in 1..n |-> get_seq(measurers[j])])
    /\ recorded' = [j \in 1..n |->
                      [times |-> recorded[j].times + SpanCount(bs[j]),
                       total_elapsed |-> recorded[j].total_elapsed + SpanSum(bs[j])]]

\* The clock after a repetition whose callback did bs.
ElapseN(bs, o) ==
    /\ now + SpanSumN(bs) + o <= MaxNow
    /\ now' = now + SpanSumN(bs) + o

\* lib.rs 446-465
MeasureNFirst ==
    /\ fn = "measure_function_n_with_times"
    /\ pc = "first"
    /\ \E bs \in [1..n -> ThreadBehaviours], o \in Overheads :
        LET c == FirstCollectN(CallbackN(measurers, bs), <<>>, 1) IN
        /\ ObserveN(bs)
        /\ ElapseN(bs, o)
        /\ measurers' = c.ms
        /\ IF c.ok
           THEN /\ measure_results' = <<c.results>>
                /\ pc' = "loop"
                /\ ret' = ret
           ELSE /\ measure_results' = measure_results
                /\ pc' = "err"
                /\ ret' = Err
    /\ UNCHANGED <<fn, times, duration, measurer, measure_result, i, start, n>>
    /\ UNCHANGED mtvars
    /\ UNCHANGED msvars
    /\ UNCHANGED rvars

\* lib.rs 467-485: one iteration of `for _ in 1..times`
MeasureNLoop ==
    /\ fn = "measure_function_n_with_times"
    /\ pc = "loop"
    /\ i < times
    /\ \E bs \in [1..n -> ThreadBehaviours], o \in Overheads :
        LET c == LoopCollectN(measure_results[1], CallbackN(measurers, bs), 1) IN
        /\ ObserveN(bs)
        /\ ElapseN(bs, o)
        /\ measurers' = c.ms
        /\ IF c.ok
           THEN /\ measure_results' = <<c.results>>
                /\ i' = i + 1
                /\ pc' = "loop"
                /\ ret' = ret
           ELSE /\ measure_results' = measure_results
                /\ i' = i
                /\ pc' = "err"
                /\ ret' = Err
    /\ UNCHANGED <<fn, times, duration, measurer, measure_result, start, n>>
    /\ UNCHANGED mtvars
    /\ UNCHANGED msvars
    /\ UNCHANGED rvars

\* lib.rs 487
MeasureNReturn ==
    /\ fn = "measure_function_n_with_times"
    /\ pc = "loop"
    /\ i >= times
    /\ pc' = "ok"
    /\ ret' = Ok(measure_results[1])
    /\ UNCHANGED <<fn, times, duration, measurer, measure_result, i, start, now>>
    /\ UNCHANGED histvars
    /\ UNCHANGED mtvars
    /\ UNCHANGED nvars
    /\ UNCHANGED msvars
    /\ UNCHANGED rvars

\* lib.rs 516-537
BenchNFirst ==
    /\ fn = "bench_function_n_with_duration"
    /\ pc = "first"
    /\ \E bs \in [1..n -> ThreadBehaviours], o \in Overheads :
        LET c == FirstCollectN(CallbackN(measurers, bs), <<>>, 1) IN
        /\ ObserveN(bs)
        /\ ElapseN(bs, o)
        /\ measurers' = c.ms
        /\ IF c.ok
           THEN /\ measure_results' = <<c.results>>
                /\ start' = <<now'>>
                /\ pc' = "loop"
                /\ ret' = ret
           ELSE /\ measure_results' = measure_results
                /\ start' = start
                /\ pc' = "err"
                /\ ret' = Err
    /\ UNCHANGED <<fn, times, duration, measurer, measure_result, i, n>>
    /\ UNCHANGED mtvars
    /\ UNCHANGED msvars
    /\ UNCHANGED rvars

\* lib.rs 539-563: one iteration of `loop`, and the return after `break`
BenchNLoop ==
    /\ fn = "bench_function_n_with_duration"
    /\ pc = "loop"
    /\ i <= MaxLoops
    /\ \E bs \in [1..n -> ThreadBehaviours], o \in Overheads :
        LET c == LoopCollectN(measure_results[1], CallbackN(measurers, bs), 1) IN
        /\ ObserveN(bs)
        /\ ElapseN(bs, o)
        /\ measurers' = c.ms
        /\ IF ~c.ok
           THEN /\ measure_results' = measure_results
                /\ i' = i
                /\ pc' = "err"
                /\ ret' = Err
           ELSE IF Expired(start[1], now', duration)
           THEN /\ measure_results' = <<c.results>>
                /\ i' = i
                /\ pc' = "ok"
                /\ ret' = Ok(c.results)
           ELSE /\ measure_results' = <<c.results>>
                /\ i' = i + 1
                /\ pc' = "loop"
                /\ ret' = ret
    /\ UNCHANGED <<fn, times, duration, measurer, measure_result, start, n>>
    /\ UNCHANGED mtvars
    /\ UNCHANGED msvars
    /\ UNCHANGED rvars

\* C15: in the N-wide orchestrators a repetition in which some slot's Measurer
\* neither measured nor was skipped makes the whole call return
\* MeasurerNotMeasured, whichever slot it is and whatever the other slots did:
\* it is the last repetition run and no result is returned.
C15_AnySlotMissingFails ==
    \A k \in 1..Len(kinds) :
        (\E j \in 1..n : kinds[k][j] = "missing")
            => (k = Len(kinds) /\ pc = "err" /\ ret = Err)

\* The last slot alone is missing in a later repetition; the first measured.
C15_Witness ==
    /\ n >= 2
    /\ Len(kinds) >= 2
    /\ kinds[Len(kinds)][1] = "one"
    /\ kinds[Len(kinds)][n] = "missing"
    /\ ret = Err

\* C24: an N-wide run with n Measurers returns exactly n results, and result
\* j is the merge of the spans recorded on Measurer j alone, over all
\* repetitions, whatever was measured or skipped on the other Measurers.
C24_SlotsIndependent ==
    (fn \in {"measure_function_n_with_times", "bench_function_n_with_duration"}
        /\ pc = "ok")
        => /\ Len(ret[1].value) = n
           /\ \A j \in 1..n : ret[1].value[j] = recorded[j]

\* Three repetitions: the first slot measured in each, the last in one only.
C24_Witness ==
    /\ fn = "measure_function_n_with_times"
    /\ pc = "ok"
    /\ n >= 2
    /\ Len(kinds) = 3
    /\ ret[1].value[1] = [times |-> 3, total_elapsed |-> 3]
    /\ ret[1].value[n] = [times |-> 1, total_elapsed |-> 1]

NextN ==
    \/ MeasureNFirst
    \/ MeasureNLoop
    \/ MeasureNReturn
    \/ BenchNFirst
    \/ BenchNLoop

SpecN == InitN /\ [][NextN]_vars

(* ============== the single-thread orchestrators together =============== *)
InitST == Init \/ InitN

NextST == Next \/ NextN

SpecST == InitST /\ [][NextST]_vars

\* A Measurer as the orchestrator hands it to the callback.
Clean(m) == m.result = <<>> /\ ~m.pass

\* C22: whenever a callback is about to be invoked, every Measurer passed to
\* it holds no accumulated result and its pass flag is false, so nothing of
\* one repetition is carried into the next.
C22_MeasurersCleanAtCallback ==
    pc \in {"first", "loop"} =>
        /\ Clean(measurer)
        /\ \A j \in 1..Len(measurers) : Clean(measurers[j])

\* Before the third repetition of an N-wide run whose second repetition
\* measured on the first slot and skipped on the last.
C22_Witness ==
    /\ fn = "measure_function_n_with_times"
    /\ n >= 2
    /\ pc = "loop"
    /\ i < times
    /\ Len(kinds) = 2
    /\ kinds[2][1] = "one"
    /\ kinds[2][n] = "skip"

(* ============ MeasureResult, src/src/measure_result.rs ================== *)
MaxCount == 2
MaxTotal == 2

\* as_nanos() of one second
NANOS_PER_SEC == 1000000000

\* The MeasureResults to merge: an orchestrator's totals, where no span was
\* counted without its duration being added.
Results ==
    {Empty} \cup [times : 1..MaxCount, total_elapsed : 0..MaxTotal]

\* The MeasureResults elapsed() is called on: non-empty ones, with totals
\* below, at and above one second.
Samples ==
    [times : 1..(MaxCount + 1),
     total_elapsed : {0, 1, 2, 7, NANOS_PER_SEC - 1, NANOS_PER_SEC,
                      NANOS_PER_SEC + 7, 2 * NANOS_PER_SEC + 1}]

\* Duration::new(secs, nanos), as nanoseconds
Duration_new(secs, nanos) == secs * NANOS_PER_SEC + nanos

\* Variant of elapsed: the whole seconds are left out of the rebuilt Duration.
elapsedSubsecond(r) ==
    LET nano_secs == r.total_elapsed \div r.times IN
    Duration_new(0, nano_secs % NANOS_PER_SEC)

\* MeasureResult::elapsed.  The casts `as u64` and `as u32` lose nothing: the
\* quotient is at most the Duration's own u64 seconds and the remainder is
\* below 10^9.
elapsed(r) ==
    LET nano_secs == r.total_elapsed \div r.times
        secs == nano_secs \div NANOS_PER_SEC
        nanos == nano_secs % NANOS_PER_SEC IN
    Duration_new(secs, nanos)

InitResult ==
    /\ fn = "MeasureResult"
    /\ times = 1
    /\ duration = 0
    /\ pc = "start"
    /\ measurer = DefaultMeasurer
    /\ measure_result = <<>>
    /\ i = 1
    /\ start = <<>>
    /\ now = 0
    /\ ret = <<>>
    /\ kinds = <<>>
    /\ seen = <<>>
    /\ recorded = Empty
    /\ threads = 1
    /\ workers = <<>>
    /\ chan = <<>>
    /\ start0 = 0
    /\ own = <<>>
    /\ n = 1
    /\ measurers = <<>>
    /\ measure_results = <<>>
    /\ self = Measurer_default
    /\ call = <<>>
    /\ panicked = FALSE
    /\ trace = <<>>
    /\ methods = <<>>
    /\ operands \in Results \X Results \X Results
    /\ lhs = <<>>
    /\ rhs = <<>>
    /\ sample \in Samples
    /\ average = <<>>

\* a += b; a += c: the merge of lib.rs 231-232 applied from the left
MergeLeft ==
    /\ pc = "start"
    /\ lhs' = <<Merge(Merge(operands[1], operands[2]), operands[3])>>
    /\ pc' = "left"
    /\ UNCHANGED <<operands, rhs, sample, average>>
    /\ UNCHANGED <<fn, times, duration, measurer, measure_result, i, start, now, ret>>
    /\ UNCHANGED histvars
    /\ UNCHANGED mtvars
    /\ UNCHANGED nvars
    /\ UNCHANGED <<self, call, panicked, trace, methods>>

\* b += c; a += b: the same merge applied from the right
MergeRight ==
    /\ pc = "left"
    /\ rhs' = <<Merge(operands[1], Merge(operands[2], operands[3]))>>
    /\ pc' = "both"
    /\ UNCHANGED <<operands, lhs, sample, average>>
    /\ UNCHANGED <<fn, times, duration, measurer, measure_result, i, start, now, ret>>
    /\ UNCHANGED histvars
    /\ UNCHANGED mtvars
    /\ UNCHANGED nvars
    /\ UNCHANGED <<self, call, panicked, trace, methods>>

\* a += b against b += a
MergeSwapped ==
    /\ pc = "both"
    /\ lhs' = <<Merge(operands[1], operands[2])>>
    /\ rhs' = <<Merge(operands[2], operands[1])>>
    /\ pc' = "swapped"
    /\ UNCHANGED <<operands, sample, average>>
    /\ UNCHANGED <<fn, times, duration, measurer, measure_result, i, start, now, ret>>
    /\ UNCHANGED histvars
    /\ UNCHANGED mtvars
    /\ UNCHANGED nvars
    /\ UNCHANGED <<self, call, panicked, trace, methods>>

\* sample.elapsed()
TakeAverage ==
    /\ pc = "swapped"
    /\ average' = <<elapsed(sample)>>
    /\ pc' = "averaged"
    /\ UNCHANGED <<operands, lhs, rhs, sample>>
    /\ UNCHANGED <<fn, times, duration, measurer, measure_result, i, start, now, ret>>
    /\ UNCHANGED histvars
    /\ UNCHANGED mtvars
    /\ UNCHANGED nvars
    /\ UNCHANGED <<self, call, panicked, trace, methods>>

\* C16: the orchestrators' merge of results is associative and commutative:
\* merge(merge(a,b),c) = merge(a,merge(b,c)) and merge(a,b) = merge(b,a).
C16_MergeAssocComm ==
    pc \in {"both", "swapped"} => lhs = rhs

C16_Witness ==
    /\ pc = "swapped"
    /\ operands[1].times # operands[2].times
    /\ operands[1].total_elapsed # operands[2].total_elapsed
    /\ lhs = <<[times |-> operands[1].times + operands[2].times,
                total_elapsed |-> operands[1].total_elapsed
                                    + operands[2].total_elapsed]>>

\* C18: for a result with times > 0, elapsed() is the duration of
\* total_elapsed nanoseconds divided by times, truncated.
C18_AverageTruncates ==
    pc = "averaged" => average = <<sample.total_elapsed \div sample.times>>

\* 2.000000001 s over 2 spans: 1 s, the odd nanosecond dropped.
C18_Witness ==
    /\ pc = "averaged"
    /\ sample = [times |-> 2, total_elapsed |-> 2 * NANOS_PER_SEC + 1]
    /\ average = <<NANOS_PER_SEC>>

NextResult ==
    \/ MergeLeft
    \/ MergeRight
    \/ MergeSwapped
    \/ TakeAverage

SpecResult == InitResult /\ [][NextResult]_vars

(* ================= Measurer, src/src/measurer.rs ======================= *)
(* One Measurer::default() and the methods a callback calls on it, one      *)
(* after another.  A loop method is entered in one step and then runs one   *)
(* iteration per step.                                                      *)
MaxCalls == 2
MaxIters == 2
MaxItems == 2

\* What `start.elapsed()` returns: Ok(duration), or Err(SystemTimeError) when
\* the system clock was set back.
Readings ==
    {[ok |-> TRUE, value |-> d] : d \in 0..MaxSpan} \cup {[ok |-> FALSE, value |-> 0]}

\* The MeasureLoopResult a loop body returns.
MeasureLoopResult == {"Continue", "Break"}

\* Measurer::is_measured
is_measured(m) == m.elapsed = <<>>

\* Measurer::measure, whose `start.elapsed()` returns r
measure(m, r) ==
    IF m.elapsed = <<>>
    THEN [panic |-> FALSE, m |-> [m EXCEPT !.elapsed = <<r>>]]
    ELSE [panic |-> TRUE, m |-> m]

\* The duration stored at the end of a loop method:
\*   duration_sum.as_nanos() / loop_seq, rebuilt from its seconds and nanoseconds
Mean(duration_sum, loop_seq) == [ok |-> TRUE, value |-> duration_sum \div loop_seq]

\* What the Measurer holds, read as an aggregate: its one Duration, if any.
Accumulated(m) ==
    IF m.elapsed # <<>> /\ m.elapsed[1].ok THEN <<New(m.elapsed[1].value)>> ELSE <<>>

\* The local variables of a loop method.
Frame(method, len) ==
    [method |-> method, running |-> TRUE, loop_seq |-> 0, duration_sum |-> 0,
     len |-> len]

Running(method) == call # <<>> /\ call[1].running /\ call[1].method = method

CanCall ==
    /\ pc = "callback"
    /\ (IF call = <<>> THEN TRUE ELSE ~call[1].running)
    /\ ~panicked
    /\ Len(methods) < MaxCalls

\* What the Measurer does around one invocation of the work, in order:
\*   let start = SystemTime::now(); let output = f(..); let elapsed = start.elapsed();
TimedSpan == <<"timer_start", "work", "timer_stop">>

\* One closure invocation, for the history.
Event(method, closure, index, out, r) ==
    [callno |-> Len(methods), method |-> method, closure |-> closure,
     index |-> index, out |-> out, reading |-> r,
     steps |-> IF closure = "f" THEN TimedSpan ELSE <<"predicate">>]

\* A callback handed a Measurer::default().
InitMeasurer ==
    /\ fn = "Measurer"
    /\ times = 1
    /\ duration = 0
    /\ pc = "callback"
    /\ measurer = DefaultMeasurer
    /\ measure_result = <<>>
    /\ i = 1
    /\ start = <<>>
    /\ now = 0
    /\ ret = <<>>
    /\ kinds = <<>>
    /\ seen = <<>>
    /\ recorded = Empty
    /\ threads = 1
    /\ workers = <<>>
    /\ chan = <<>>
    /\ start0 = 0
    /\ own = <<>>
    /\ n = 1
    /\ measurers = <<>>
    /\ measure_results = <<>>
    /\ FreshMeasurer

\* measurer.rs 45-55: measurer.measure(f)
CallMeasure ==
    /\ CanCall
    /\ \E r \in Readings :
        LET o == measure(self, r) IN
        /\ self' = o.m
        /\ panicked' = o.panic
        /\ trace' = IF o.panic THEN trace
                    ELSE Append(trace, [Event("measure", "f", 0, "Continue", r)
                                        EXCEPT !.callno = Len(methods) + 1])
    /\ methods' = Append(methods, "measure")
    /\ call' = <<[Frame("measure", 0) EXCEPT !.running = FALSE]>>
    /\ UNCHANGED <<fn, times, duration, pc, measurer, measure_result, i, start, now, ret>>
    /\ UNCHANGED histvars
    /\ UNCHANGED mtvars
    /\ UNCHANGED nvars
    /\ UNCHANGED rvars

\* measurer.rs 58-62, 100-102: `if self.is_measured() { ... } else { panic!(..) }`
MeasureLoopEnter ==
    /\ CanCall
    /\ methods' = Append(methods, "measure_loop")
    /\ IF is_measured(self)
       THEN /\ call' = <<Frame("measure_loop", 0)>>
            /\ panicked' = panicked
       ELSE /\ call' = <<[Frame("measure_loop", 0) EXCEPT !.running = FALSE]>>
            /\ panicked' = TRUE
    /\ UNCHANGED <<self, trace>>
    /\ UNCHANGED <<fn, times, duration, pc, measurer, measure_result, i, start, now, ret>>
    /\ UNCHANGED histvars
    /\ UNCHANGED mtvars
    /\ UNCHANGED nvars
    /\ UNCHANGED rvars

\* measurer.rs 64-98: one iteration of `loop`.  The body breaks at the latest
\* in its MaxIters-th invocation.
MeasureLoopStep ==
    /\ Running("measure_loop")
    /\ \E out \in MeasureLoopResult, r \in Readings :
        LET c == call[1]
            sum == c.duration_sum + r.value
            seq == c.loop_seq + 1 IN
        /\ (seq >= MaxIters => out = "Break")
        /\ trace' = Append(trace, Event("measure_loop", "f", c.loop_seq, out, r))
        /\ IF ~r.ok
           THEN /\ self' = [self EXCEPT !.elapsed = <<r>>]
                /\ call' = <<[c EXCEPT !.running = FALSE]>>
           ELSE IF out = "Break"
           THEN /\ self' = [self EXCEPT !.elapsed = <<Mean(sum, seq)>>]
                /\ call' = <<[c EXCEPT !.running = FALSE, !.duration_sum = sum,
                                       !.loop_seq = seq]>>
           ELSE /\ self' = self
                /\ call' = <<[c EXCEPT !.duration_sum = sum, !.loop_seq = seq]>>
    /\ UNCHANGED <<panicked, methods>>
    /\ UNCHANGED <<fn, times, duration, pc, measurer, measure_result, i, start, now, ret>>
    /\ UNCHANGED histvars
    /\ UNCHANGED mtvars
    /\ UNCHANGED nvars
    /\ UNCHANGED rvars

\* Variant of LoopEnd: without `if loop_seq > 0`, a loop of no iteration
\* stores a zero Duration.
LoopEndUnguarded(m, duration_sum, loop_seq) ==
    [m EXCEPT !.elapsed = <<IF loop_seq > 0 THEN Mean(duration_sum, loop_seq)
                             ELSE [ok |-> TRUE, value |-> 0]>>]

\* measurer.rs 142-149, 196-203: the code after the `for` and `while` loops
LoopEnd(m, duration_sum, loop_seq) ==
    IF loop_seq > 0 THEN [m EXCEPT !.elapsed = <<Mean(duration_sum, loop_seq)>>]
    ELSE m

\* measurer.rs 106-110, 150-152: entry of measure_for_loop over `len` elements
MeasureForLoopEnter ==
    /\ CanCall
    /\ methods' = Append(methods, "measure_for_loop")
    /\ \E len \in 0..MaxItems :
        IF is_measured(self)
        THEN /\ call' = <<Frame("measure_for_loop", len)>>
             /\ panicked' = panicked
        ELSE /\ call' = <<[Frame("measure_for_loop", len) EXCEPT !.running = FALSE]>>
             /\ panicked' = TRUE
    /\ UNCHANGED <<self, trace>>
    /\ UNCHANGED <<fn, times, duration, pc, measurer, measure_result, i, start, now, ret>>
    /\ UNCHANGED histvars
    /\ UNCHANGED mtvars
    /\ UNCHANGED nvars
    /\ UNCHANGED rvars

\* measurer.rs 112-149: one `iter.next()` of `for i in iter`: the body on the
\* next element, or the end of the loop when the sequence is exhausted.
MeasureForLoopStep ==
    /\ Running("measure_for_loop")
    /\ LET c == call[1] IN
       IF c.loop_seq >= c.len
       THEN /\ self' = LoopEnd(self, c.duration_sum, c.loop_seq)
            /\ call' = <<[c EXCEPT !.running = FALSE]>>
            /\ trace' = trace
       ELSE \E out \in MeasureLoopResult, r \in Readings :
            LET sum == c.duration_sum + r.value
                seq == c.loop_seq + 1 IN
            /\ trace' = Append(trace, Event("measure_for_loop", "f", c.loop_seq, out, r))
            /\ IF ~r.ok
               THEN /\ self' = [self EXCEPT !.elapsed = <<r>>]
                    /\ call' = <<[c EXCEPT !.running = FALSE]>>
               ELSE IF out = "Break"
               THEN /\ self' = LoopEnd(self, sum, seq)
                    /\ call' = <<[c EXCEPT !.running = FALSE, !.duration_sum = sum,
                                           !.loop_seq = seq]>>
               ELSE /\ self' = self
                    /\ call' = <<[c EXCEPT !.duration_sum = sum, !.loop_seq = seq]>>
    /\ UNCHANGED <<panicked, methods>>
    /\ UNCHANGED <<fn, times, duration, pc, measurer, measure_result, i, start, now, ret>>
    /\ UNCHANGED histvars
    /\ UNCHANGED mtvars
    /\ UNCHANGED nvars
    /\ UNCHANGED rvars

\* measurer.rs 156-160, 204-206: entry of measure_while_loop
MeasureWhileLoopEnter ==
    /\ CanCall
    /\ methods' = Append(methods, "measure_while_loop")
    /\ IF is_measured(self)
       THEN /\ call' = <<Frame("measure_while_loop", 0)>>
            /\ panicked' = panicked
       ELSE /\ call' = <<[Frame("measure_while_loop", 0) EXCEPT !.running = FALSE]>>
            /\ panicked' = TRUE
    /\ UNCHANGED <<self, trace>>
    /\ UNCHANGED <<fn, times, duration, pc, measurer, measure_result, i, start, now, ret>>
    /\ UNCHANGED histvars
    /\ UNCHANGED mtvars
    /\ UNCHANGED nvars
    /\ UNCHANGED rvars

\* Variant of MeasureWhileLoopStep: a do-while loop, the body f(loop_seq)
\* first and the predicate after it.
MeasureWhileLoopStepBodyFirst ==
    /\ Running("measure_while_loop")
    /\ \E g \in BOOLEAN, out \in MeasureLoopResult, r \in Readings :
        LET c == call[1]
            sum == c.duration_sum + r.value
            seq == c.loop_seq + 1
            done == Append(trace, Event("measure_while_loop", "f", c.loop_seq, out, r))
            asked == Append(done, Event("measure_while_loop", "g", seq,
                                        IF g THEN "true" ELSE "false",
                                        [ok |-> TRUE, value |-> 0])) IN
        /\ (seq >= MaxIters => ~g)
        /\ IF ~r.ok
           THEN /\ trace' = done
                /\ self' = [self EXCEPT !.elapsed = <<r>>]
                /\ call' = <<[c EXCEPT !.running = FALSE]>>
           ELSE IF out = "Break"
           THEN /\ trace' = done
                /\ self' = LoopEnd(self, sum, seq)
                /\ call' = <<[c EXCEPT !.running = FALSE,
                                       !.duration_sum = sum, !.loop_seq = seq]>>
           ELSE IF ~g
           THEN /\ trace' = asked
                /\ self' = LoopEnd(self, sum, seq)
                /\ call' = <<[c EXCEPT !.running = FALSE,
                                       !.duration_sum = sum, !.loop_seq = seq]>>
           ELSE /\ trace' = asked
                /\ self' = self
                /\ call' = <<[c EXCEPT !.duration_sum = sum, !.loop_seq = seq]>>
    /\ UNCHANGED <<panicked, methods>>
    /\ UNCHANGED <<fn, times, duration, pc, measurer, measure_result, i, start, now, ret>>
    /\ UNCHANGED histvars
    /\ UNCHANGED mtvars
    /\ UNCHANGED nvars
    /\ UNCHANGED rvars

\* measurer.rs 162-203: one iteration of `loop`: the predicate g(loop_seq),
\* then the body f(loop_seq).  The predicate is false at index MaxIters at the
\* latest.
MeasureWhileLoopStep ==
    /\ Running("measure_while_loop")
    /\ \E g \in BOOLEAN :
        LET c == call[1]
            asked == Append(trace, Event("measure_while_loop", "g", c.loop_seq,
                                         IF g THEN "true" ELSE "false",
                                         [ok |-> TRUE, value |-> 0])) IN
        /\ (c.loop_seq >= MaxIters => ~g)
        /\ IF ~g
           THEN /\ trace' = asked
                /\ self' = LoopEnd(self, c.duration_sum, c.loop_seq)
                /\ call' = <<[c EXCEPT !.running = FALSE]>>
           ELSE \E out \in MeasureLoopResult, r \in Readings :
                LET sum == c.duration_sum + r.value
                    seq == c.loop_seq + 1 IN
                /\ trace' = Append(asked,
                                   Event("measure_while_loop", "f", c.loop_seq, out, r))
                /\ IF ~r.ok
                   THEN /\ self' = [self EXCEPT !.elapsed = <<r>>]
                        /\ call' = <<[c EXCEPT !.running = FALSE]>>
                   ELSE IF out = "Break"
                   THEN /\ self' = LoopEnd(self, sum, seq)
                        /\ call' = <<[c EXCEPT !.running = FALSE,
                                               !.duration_sum = sum, !.loop_seq = seq]>>
                   ELSE /\ self' = self
                        /\ call' = <<[c EXCEPT !.duration_sum = sum, !.loop_seq = seq]>>
    /\ UNCHANGED <<panicked, methods>>
    /\ UNCHANGED <<fn, times, duration, pc, measurer, measure_result, i, start, now, ret>>
    /\ UNCHANGED histvars
    /\ UNCHANGED mtvars
    /\ UNCHANGED nvars
    /\ UNCHANGED rvars

\* The callback has returned and the orchestrator collects the repetition's
\* result as in lib.rs 213-220, reading the Measurer's result as what the
\* Measurer holds and its pass flag as clear (this Measurer has no skip).
CollectRepetition ==
    /\ pc = "callback"
    /\ IF call = <<>> THEN TRUE ELSE ~call[1].running
    /\ ~panicked
    /\ LET c == FirstCollect([seq |-> get_seq(self), result |-> Accumulated(self),
                              pass |-> FALSE]) IN
       IF c.ok
       THEN /\ measure_result' = <<c.result>>
            /\ pc' = "collected"
            /\ ret' = ret
       ELSE /\ measure_result' = measure_result
            /\ pc' = "err"
            /\ ret' = Err
    /\ UNCHANGED <<fn, times, duration, measurer, i, start, now>>
    /\ UNCHANGED histvars
    /\ UNCHANGED mtvars
    /\ UNCHANGED nvars
    /\ UNCHANGED msvars
    /\ UNCHANGED rvars

(* --------------------------- Measurer claims --------------------------- *)
\* C11: k >= 1 calls of Measurer::measure on one Measurer never panic, each
\* invokes its work once, and afterwards the Measurer's accumulated result has
\* count k and total_elapsed equal to the sum of the k span durations.
OnlyMeasureCalled == \A k \in 1..Len(methods) : methods[k] = "measure"

ClockNeverFailed == \A k \in 1..Len(trace) : trace[k].reading.ok

RECURSIVE TraceSum(_)
TraceSum(tr) == IF tr = <<>> THEN 0 ELSE Head(tr).reading.value + TraceSum(Tail(tr))

C11_MeasureAccumulates ==
    (Len(methods) >= 1 /\ OnlyMeasureCalled /\ ClockNeverFailed)
        => /\ ~panicked
           /\ Len(trace) = Len(methods)
           /\ Accumulated(self) =
                <<[times |-> Len(methods), total_elapsed |-> TraceSum(trace)]>>

\* The call in progress or last finished has returned.
Finished1 == call # <<>> /\ ~call[1].running

\* The body was invoked with indices 0, 1, 2, ... in order.
BodyIndicesInOrder == \A k \in 1..Len(trace) : trace[k].index = k - 1

\* C12: measure_loop invokes body with indices 0, 1, 2, ... in order and stops
\* right after the first Break; when that invocation has index j, body ran
\* j + 1 times and the Measurer's count and total_elapsed grew by j + 1 and by
\* the sum of the j + 1 span durations.
C12_LoopFoldsEachSpan ==
    (methods = <<"measure_loop">> /\ ClockNeverFailed)
        => /\ BodyIndicesInOrder
           /\ \A k \in 1..Len(trace) :
                trace[k].out = "Break" => (k = Len(trace) /\ Finished1)
           /\ Finished1 =>
                /\ Len(trace) >= 1
                /\ trace[Len(trace)].out = "Break"
                /\ Accumulated(self) =
                     <<[times |-> Len(trace), total_elapsed |-> TraceSum(trace)]>>

\* The number of spans the Measurer holds.
Count(m) == IF Accumulated(m) = <<>> THEN 0 ELSE Accumulated(m)[1].times

\* C13: measure_for_loop over a sequence of length L whose body never returns
\* Break invokes body exactly L times, once per element in order, and leaves
\* the Measurer with count = L.
C13_ForLoopCountsElements ==
    (methods = <<"measure_for_loop">> /\ ClockNeverFailed /\ Finished1
        /\ \A k \in 1..Len(trace) : trace[k].out # "Break")
        => /\ Len(trace) = call[1].len
           /\ BodyIndicesInOrder
           /\ Count(self) = call[1].len

\* Event p and its neighbour belong to the same method call.
SameCallNext(p) == p < Len(trace) /\ trace[p + 1].callno = trace[p].callno
SameCallPrev(p) == p > 1 /\ trace[p - 1].callno = trace[p].callno

\* Event p is the last one of its call: nothing follows it in that call and
\* the call is no longer running.
Stopped(p) ==
    /\ ~SameCallNext(p)
    /\ (p = Len(trace) /\ Len(methods) = trace[p].callno) => Finished1

\* C14: measure_while_loop evaluates predicate(index) before every iteration,
\* from index 0 on; a false predicate stops the loop with no body invocation
\* for that index; a true one is followed by exactly one timed body invocation
\* for that index, and a Break from the body stops the loop with no further
\* predicate evaluation.
C14_PredicateBeforeBody ==
    \A p \in 1..Len(trace) :
        LET e == trace[p] IN
        e.method = "measure_while_loop" =>
            /\ (e.closure = "g" /\ e.out = "false") => Stopped(p)
            /\ (e.closure = "g" /\ e.out = "true") =>
                    /\ SameCallNext(p)
                    /\ trace[p + 1].closure = "f"
                    /\ trace[p + 1].index = e.index
            /\ e.closure = "g" =>
                    IF SameCallPrev(p)
                    THEN /\ trace[p - 1].closure = "f"
                         /\ trace[p - 1].out = "Continue"
                         /\ e.index = trace[p - 1].index + 1
                    ELSE e.index = 0
            /\ e.closure = "f" =>
                    /\ SameCallPrev(p)
                    /\ trace[p - 1].closure = "g"
                    /\ trace[p - 1].out = "true"
                    /\ trace[p - 1].index = e.index
            /\ (e.closure = "f" /\ e.out = "Break") => Stopped(p)

\* predicate(0) true, body(0) Continue, predicate(1) true, body(1) Break
C14_Witness ==
    /\ methods = <<"measure_while_loop">>
    /\ Finished1
    /\ Len(trace) = 4
    /\ trace[2].out = "Continue"
    /\ trace[4].out = "Break"
    /\ trace[4].index = 1

\* C19: is_measured is true exactly when the Measurer holds a result, and
\* false on a fresh Measurer.
C19_IsMeasuredIffHolds ==
    is_measured(self) <=> (self.elapsed # <<>>)

\* C26: in every timed span the timer is started, the work is invoked, its
\* return value goes through black_box, and only then the timer is stopped.
C26_BarrierInsideSpan ==
    \A p \in 1..Len(trace) :
        trace[p].closure = "f" =>
            \E a, b, c, d \in 1..Len(trace[p].steps) :
                /\ a < b /\ b < c /\ c < d
                /\ trace[p].steps[a] = "timer_start"
                /\ trace[p].steps[b] = "work"
                /\ trace[p].steps[c] = "black_box"
                /\ trace[p].steps[d] = "timer_stop"

\* The callback called loop protocols only, and they timed no span.
ZeroSpans ==
    /\ Len(methods) >= 1
    /\ \A k \in 1..Len(methods) :
          methods[k] \in {"measure_for_loop", "measure_while_loop"}
    /\ \A p \in 1..Len(trace) : trace[p].closure # "f"
    /\ Finished1

\* C27: a loop protocol that times no span (measure_for_loop over an empty
\* sequence, measure_while_loop whose predicate is false at index 0) leaves
\* the Measurer without a result, and a repetition that did only that ends
\* the call with MeasurerNotMeasured, not with an empty result merged.
C27_ZeroSpansIsMissing ==
    ZeroSpans =>
        /\ Accumulated(self) = <<>>
        /\ pc # "callback" => (pc = "err" /\ ret = Err /\ measure_result = <<>>)

\* An empty measure_for_loop, then a measure_while_loop that stops at index 0.
C27_Witness ==
    /\ methods = <<"measure_for_loop", "measure_while_loop">>
    /\ Len(trace) = 1
    /\ trace[1].closure = "g"
    /\ trace[1].out = "false"
    /\ pc = "err"
    /\ ret = Err

NextMeasurer ==
    \/ CallMeasure
    \/ MeasureLoopEnter
    \/ MeasureLoopStep
    \/ MeasureForLoopEnter
    \/ MeasureForLoopStep
    \/ MeasureWhileLoopEnter
    \/ MeasureWhileLoopStep
    \/ CollectRepetition

SpecMeasurer == InitMeasurer /\ [][NextMeasurer]_vars

====
